---- MODULE Spec2Model ----
(***************************************************************************)
(* Model of aws/backup/lambda-backup.py: the scheduled S3 backup handler   *)
(* (lambda_handler), its helpers (list_source_objects,                     *)
(* cleanup_old_backups, send_metrics) and the restore utility              *)
(* (restore_from_backup).                                                  *)
(*                                                                         *)
(* Every boto3 call is one step of the model and may fail.  A string of    *)
(* the program (an object key, a timestamp, the text of RETENTION_DAYS)    *)
(* is the sequence of its characters, a character being its Unicode code   *)
(* point; the texts the program only passes on (bucket names, the fixed    *)
(* messages, the metadata names) are TLA+ strings.  Time is counted in     *)
(* ticks since datetime.min; a formatted timestamp and an S3 LastModified  *)
(* have the granularity of one second (TicksPerSec ticks).                 *)
(***************************************************************************)
EXTENDS Integers, Sequences, FiniteSets, TLC

VARIABLES
    env,            \* os.environ: SOURCE_BUCKET, BACKUP_BUCKET, RETENTION_DAYS
    s3,             \* bucket name -> (key -> object)
    sink,           \* CloudWatch: sequence of accepted put_metric_data payloads
    clock,          \* datetime.utcnow(), in ticks
    pc,             \* position of the running entry point
    timestamp,      \* lambda_handler: timestamp
    retention_days, \* lambda_handler: retention_days
    objects,        \* list_source_objects: objects
    token,          \* paginator: continuation token, <<>> before the first page
    source_objects, \* lambda_handler: source_objects
    i,              \* lambda_handler: index of obj in source_objects
    backup_count,   \* lambda_handler: backup_count
    total_size,     \* lambda_handler: total_size
    cutoff_date,    \* cleanup_old_backups: cutoff_date
    page,           \* cleanup_old_backups: page['Contents']
    more,           \* paginator: IsTruncated of the page in hand
    j,              \* cleanup_old_backups: index of obj in page
    exc,            \* the exception travelling to an except clause
    args,           \* restore_from_backup: its arguments
    original_key,   \* restore_from_backup: original_key
    outcome,        \* Running, then how the entry point ended
    log,            \* the calls of the running entry point, in order: the
                    \* boto3 calls and the call of cleanup_old_backups
    s3_start,       \* s3 when the entry point was entered
    s3_cleanup      \* s3 when cleanup_old_backups was entered

vars == <<env, s3, sink, clock, pc, timestamp, retention_days, objects, token,
          source_objects, i, backup_count, total_size, cutoff_date, page,
          more, j, exc, args, original_key, outcome, log, s3_start,
          s3_cleanup>>

(***************************************************************************)
(* Bounds and scales                                                       *)
(***************************************************************************)
\* ticks per second: utcnow() is finer than a formatted timestamp
TicksPerSec == 2
\* ticks per day (scaled)
DayTicks == 4
\* clock reading when the entry point is entered
StartClock == 200
\* the clock advances at most this many ticks during one run
MaxTicks == 2
\* keys per listing page (MaxKeys of list_objects_v2, scaled)
PageSize == 1
\* datetime.max, in ticks since datetime.min (scaled)
DatetimeMax == 400

(***************************************************************************)
(* Characters                                                              *)
(***************************************************************************)
\* the printable ASCII characters, from code 32 to code 126; "U+0060" holds
\* the place of the grave accent
Printable ==
    <<" ", "!", "\"", "#", "$", "%", "&", "'", "(", ")", "*", "+", ",", "-",
      ".", "/", "0", "1", "2", "3", "4", "5", "6", "7", "8", "9", ":", ";",
      "<", "=", ">", "?", "@", "A", "B", "C", "D", "E", "F", "G", "H", "I",
      "J", "K", "L", "M", "N", "O", "P", "Q", "R", "S", "T", "U", "V", "W",
      "X", "Y", "Z", "[", "\\", "]", "^", "_", "U+0060", "a", "b", "c", "d",
      "e", "f", "g", "h", "i", "j", "k", "l", "m", "n", "o", "p", "q", "r",
      "s", "t", "u", "v", "w", "x", "y", "z", "{", "|", "}", "~">>

\* ord(ch) of a printable ASCII character
Ord(ch) == 31 + (CHOOSE n \in 1..Len(Printable) : Printable[n] = ch)

\* the str whose characters are those of s, one by one
Text(s) == [n \in 1..Len(s) |-> Ord(s[n])]

\* c lies in one of the ranges <<first, last>> of the table t
InRanges(t, c) == \E n \in 1..Len(t) : t[n][1] <= c /\ c <= t[n][2]

\* the code points of the decimal digits (Unicode 14.0, category Nd); a
\* range holds one or more runs of the ten digits 0 to 9
DecimalDigits ==
    <<<<48, 57>>, <<1632, 1641>>, <<1776, 1785>>, <<1984, 1993>>,
      <<2406, 2415>>, <<2534, 2543>>, <<2662, 2671>>, <<2790, 2799>>,
      <<2918, 2927>>, <<3046, 3055>>, <<3174, 3183>>, <<3302, 3311>>,
      <<3430, 3439>>, <<3558, 3567>>, <<3664, 3673>>, <<3792, 3801>>,
      <<3872, 3881>>, <<4160, 4169>>, <<4240, 4249>>, <<6112, 6121>>,
      <<6160, 6169>>, <<6470, 6479>>, <<6608, 6617>>, <<6784, 6793>>,
      <<6800, 6809>>, <<6992, 7001>>, <<7088, 7097>>, <<7232, 7241>>,
      <<7248, 7257>>, <<42528, 42537>>, <<43216, 43225>>, <<43264, 43273>>,
      <<43472, 43481>>, <<43504, 43513>>, <<43600, 43609>>, <<44016, 44025>>,
      <<65296, 65305>>, <<66720, 66729>>, <<68912, 68921>>, <<69734, 69743>>,
      <<69872, 69881>>, <<69942, 69951>>, <<70096, 70105>>, <<70384, 70393>>,
      <<70736, 70745>>, <<70864, 70873>>, <<71248, 71257>>, <<71360, 71369>>,
      <<71472, 71481>>, <<71904, 71913>>, <<72016, 72025>>, <<72784, 72793>>,
      <<73040, 73049>>, <<73120, 73129>>, <<92768, 92777>>, <<92864, 92873>>,
      <<93008, 93017>>, <<120782, 120831>>, <<123200, 123209>>,
      <<123632, 123641>>, <<125264, 125273>>, <<130032, 130041>>>>

\* the code points int() takes for white space: the ASCII ones but 28 to 31,
\* and the others of Unicode
Spaces ==
    <<<<9, 13>>, <<32, 32>>, <<133, 133>>, <<160, 160>>, <<5760, 5760>>,
      <<8192, 8202>>, <<8232, 8233>>, <<8239, 8239>>, <<8287, 8287>>,
      <<12288, 12288>>>>

\* the code points repr() writes as an escape (Unicode 14.0: the characters
\* str.isprintable() rejects, the space apart)
NonPrintable ==
    <<<<0, 31>>, <<127, 160>>, <<173, 173>>, <<888, 889>>, <<896, 899>>,
      <<907, 907>>, <<909, 909>>, <<930, 930>>, <<1328, 1328>>,
      <<1367, 1368>>, <<1419, 1420>>, <<1424, 1424>>, <<1480, 1487>>,
      <<1515, 1518>>, <<1525, 1541>>, <<1564, 1564>>, <<1757, 1757>>,
      <<1806, 1807>>, <<1867, 1868>>, <<1970, 1983>>, <<2043, 2044>>,
      <<2094, 2095>>, <<2111, 2111>>, <<2140, 2141>>, <<2143, 2143>>,
      <<2155, 2159>>, <<2191, 2199>>, <<2274, 2274>>, <<2436, 2436>>,
      <<2445, 2446>>, <<2449, 2450>>, <<2473, 2473>>, <<2481, 2481>>,
      <<2483, 2485>>, <<2490, 2491>>, <<2501, 2502>>, <<2505, 2506>>,
      <<2511, 2518>>, <<2520, 2523>>, <<2526, 2526>>, <<2532, 2533>>,
      <<2559, 2560>>, <<2564, 2564>>, <<2571, 2574>>, <<2577, 2578>>,
      <<2601, 2601>>, <<2609, 2609>>, <<2612, 2612>>, <<2615, 2615>>,
      <<2618, 2619>>, <<2621, 2621>>, <<2627, 2630>>, <<2633, 2634>>,
      <<2638, 2640>>, <<2642, 2648>>, <<2653, 2653>>, <<2655, 2661>>,
      <<2679, 2688>>, <<2692, 2692>>, <<2702, 2702>>, <<2706, 2706>>,
      <<2729, 2729>>, <<2737, 2737>>, <<2740, 2740>>, <<2746, 2747>>,
      <<2758, 2758>>, <<2762, 2762>>, <<2766, 2767>>, <<2769, 2783>>,
      <<2788, 2789>>, <<2802, 2808>>, <<2816, 2816>>, <<2820, 2820>>,
      <<2829, 2830>>, <<2833, 2834>>, <<2857, 2857>>, <<2865, 2865>>,
      <<2868, 2868>>, <<2874, 2875>>, <<2885, 2886>>, <<2889, 2890>>,
      <<2894, 2900>>, <<2904, 2907>>, <<2910, 2910>>, <<2916, 2917>>,
      <<2936, 2945>>, <<2948, 2948>>, <<2955, 2957>>, <<2961, 2961>>,
      <<2966, 2968>>, <<2971, 2971>>, <<2973, 2973>>, <<2976, 2978>>,
      <<2981, 2983>>, <<2987, 2989>>, <<3002, 3005>>, <<3011, 3013>>,
      <<3017, 3017>>, <<3022, 3023>>, <<3025, 3030>>, <<3032, 3045>>,
      <<3067, 3071>>, <<3085, 3085>>, <<3089, 3089>>, <<3113, 3113>>,
      <<3130, 3131>>, <<3141, 3141>>, <<3145, 3145>>, <<3150, 3156>>,
      <<3159, 3159>>, <<3163, 3164>>, <<3166, 3167>>, <<3172, 3173>>,
      <<3184, 3190>>, <<3213, 3213>>, <<3217, 3217>>, <<3241, 3241>>,
      <<3252, 3252>>, <<3258, 3259>>, <<3269, 3269>>, <<3273, 3273>>,
      <<3278, 3284>>, <<3287, 3292>>, <<3295, 3295>>, <<3300, 3301>>,
      <<3312, 3312>>, <<3315, 3327>>, <<3341, 3341>>, <<3345, 3345>>,
      <<3397, 3397>>, <<3401, 3401>>, <<3408, 3411>>, <<3428, 3429>>,
      <<3456, 3456>>, <<3460, 3460>>, <<3479, 3481>>, <<3506, 3506>>,
      <<3516, 3516>>, <<3518, 3519>>, <<3527, 3529>>, <<3531, 3534>>,
      <<3541, 3541>>, <<3543, 3543>>, <<3552, 3557>>, <<3568, 3569>>,
      <<3573, 3584>>, <<3643, 3646>>, <<3676, 3712>>, <<3715, 3715>>,
      <<3717, 3717>>, <<3723, 3723>>, <<3748, 3748>>, <<3750, 3750>>,
      <<3774, 3775>>, <<3781, 3781>>, <<3783, 3783>>, <<3790, 3791>>,
      <<3802, 3803>>, <<3808, 3839>>, <<3912, 3912>>, <<3949, 3952>>,
      <<3992, 3992>>, <<4029, 4029>>, <<4045, 4045>>, <<4059, 4095>>,
      <<4294, 4294>>, <<4296, 4300>>, <<4302, 4303>>, <<4681, 4681>>,
      <<4686, 4687>>, <<4695, 4695>>, <<4697, 4697>>, <<4702, 4703>>,
      <<4745, 4745>>, <<4750, 4751>>, <<4785, 4785>>, <<4790, 4791>>,
      <<4799, 4799>>, <<4801, 4801>>, <<4806, 4807>>, <<4823, 4823>>,
      <<4881, 4881>>, <<4886, 4887>>, <<4955, 4956>>, <<4989, 4991>>,
      <<5018, 5023>>, <<5110, 5111>>, <<5118, 5119>>, <<5760, 5760>>,
      <<5789, 5791>>, <<5881, 5887>>, <<5910, 5918>>, <<5943, 5951>>,
      <<5972, 5983>>, <<5997, 5997>>, <<6001, 6001>>, <<6004, 6015>>,
      <<6110, 6111>>, <<6122, 6127>>, <<6138, 6143>>, <<6158, 6158>>,
      <<6170, 6175>>, <<6265, 6271>>, <<6315, 6319>>, <<6390, 6399>>,
      <<6431, 6431>>, <<6444, 6447>>, <<6460, 6463>>, <<6465, 6467>>,
      <<6510, 6511>>, <<6517, 6527>>, <<6572, 6575>>, <<6602, 6607>>,
      <<6619, 6621>>, <<6684, 6685>>, <<6751, 6751>>, <<6781, 6782>>,
      <<6794, 6799>>, <<6810, 6815>>, <<6830, 6831>>, <<6863, 6911>>,
      <<6989, 6991>>, <<7039, 7039>>, <<7156, 7163>>, <<7224, 7226>>,
      <<7242, 7244>>, <<7305, 7311>>, <<7355, 7356>>, <<7368, 7375>>,
      <<7419, 7423>>, <<7958, 7959>>, <<7966, 7967>>, <<8006, 8007>>,
      <<8014, 8015>>, <<8024, 8024>>, <<8026, 8026>>, <<8028, 8028>>,
      <<8030, 8030>>, <<8062, 8063>>, <<8117, 8117>>, <<8133, 8133>>,
      <<8148, 8149>>, <<8156, 8156>>, <<8176, 8177>>, <<8181, 8181>>,
      <<8191, 8207>>, <<8232, 8239>>, <<8287, 8303>>, <<8306, 8307>>,
      <<8335, 8335>>, <<8349, 8351>>, <<8385, 8399>>, <<8433, 8447>>,
      <<8588, 8591>>, <<9255, 9279>>, <<9291, 9311>>, <<11124, 11125>>,
      <<11158, 11158>>, <<11508, 11512>>, <<11558, 11558>>, <<11560, 11564>>,
      <<11566, 11567>>, <<11624, 11630>>, <<11633, 11646>>, <<11671, 11679>>,
      <<11687, 11687>>, <<11695, 11695>>, <<11703, 11703>>, <<11711, 11711>>,
      <<11719, 11719>>, <<11727, 11727>>, <<11735, 11735>>, <<11743, 11743>>,
      <<11870, 11903>>, <<11930, 11930>>, <<12020, 12031>>, <<12246, 12271>>,
      <<12284, 12288>>, <<12352, 12352>>, <<12439, 12440>>, <<12544, 12548>>,
      <<12592, 12592>>, <<12687, 12687>>, <<12772, 12783>>, <<12831, 12831>>,
      <<42125, 42127>>, <<42183, 42191>>, <<42540, 42559>>, <<42744, 42751>>,
      <<42955, 42959>>, <<42962, 42962>>, <<42964, 42964>>, <<42970, 42993>>,
      <<43053, 43055>>, <<43066, 43071>>, <<43128, 43135>>, <<43206, 43213>>,
      <<43226, 43231>>, <<43348, 43358>>, <<43389, 43391>>, <<43470, 43470>>,
      <<43482, 43485>>, <<43519, 43519>>, <<43575, 43583>>, <<43598, 43599>>,
      <<43610, 43611>>, <<43715, 43738>>, <<43767, 43776>>, <<43783, 43784>>,
      <<43791, 43792>>, <<43799, 43807>>, <<43815, 43815>>, <<43823, 43823>>,
      <<43884, 43887>>, <<44014, 44015>>, <<44026, 44031>>, <<55204, 55215>>,
      <<55239, 55242>>, <<55292, 63743>>, <<64110, 64111>>, <<64218, 64255>>,
      <<64263, 64274>>, <<64280, 64284>>, <<64311, 64311>>, <<64317, 64317>>,
      <<64319, 64319>>, <<64322, 64322>>, <<64325, 64325>>, <<64451, 64466>>,
      <<64912, 64913>>, <<64968, 64974>>, <<64976, 65007>>, <<65050, 65055>>,
      <<65107, 65107>>, <<65127, 65127>>, <<65132, 65135>>, <<65141, 65141>>,
      <<65277, 65280>>, <<65471, 65473>>, <<65480, 65481>>, <<65488, 65489>>,
      <<65496, 65497>>, <<65501, 65503>>, <<65511, 65511>>, <<65519, 65531>>,
      <<65534, 65535>>, <<65548, 65548>>, <<65575, 65575>>, <<65595, 65595>>,
      <<65598, 65598>>, <<65614, 65615>>, <<65630, 65663>>, <<65787, 65791>>,
      <<65795, 65798>>, <<65844, 65846>>, <<65935, 65935>>, <<65949, 65951>>,
      <<65953, 65999>>, <<66046, 66175>>, <<66205, 66207>>, <<66257, 66271>>,
      <<66300, 66303>>, <<66340, 66348>>, <<66379, 66383>>, <<66427, 66431>>,
      <<66462, 66462>>, <<66500, 66503>>, <<66518, 66559>>, <<66718, 66719>>,
      <<66730, 66735>>, <<66772, 66775>>, <<66812, 66815>>, <<66856, 66863>>,
      <<66916, 66926>>, <<66939, 66939>>, <<66955, 66955>>, <<66963, 66963>>,
      <<66966, 66966>>, <<66978, 66978>>, <<66994, 66994>>, <<67002, 67002>>,
      <<67005, 67071>>, <<67383, 67391>>, <<67414, 67423>>, <<67432, 67455>>,
      <<67462, 67462>>, <<67505, 67505>>, <<67515, 67583>>, <<67590, 67591>>,
      <<67593, 67593>>, <<67638, 67638>>, <<67641, 67643>>, <<67645, 67646>>,
      <<67670, 67670>>, <<67743, 67750>>, <<67760, 67807>>, <<67827, 67827>>,
      <<67830, 67834>>, <<67868, 67870>>, <<67898, 67902>>, <<67904, 67967>>,
      <<68024, 68027>>, <<68048, 68049>>, <<68100, 68100>>, <<68103, 68107>>,
      <<68116, 68116>>, <<68120, 68120>>, <<68150, 68151>>, <<68155, 68158>>,
      <<68169, 68175>>, <<68185, 68191>>, <<68256, 68287>>, <<68327, 68330>>,
      <<68343, 68351>>, <<68406, 68408>>, <<68438, 68439>>, <<68467, 68471>>,
      <<68498, 68504>>, <<68509, 68520>>, <<68528, 68607>>, <<68681, 68735>>,
      <<68787, 68799>>, <<68851, 68857>>, <<68904, 68911>>, <<68922, 69215>>,
      <<69247, 69247>>, <<69290, 69290>>, <<69294, 69295>>, <<69298, 69375>>,
      <<69416, 69423>>, <<69466, 69487>>, <<69514, 69551>>, <<69580, 69599>>,
      <<69623, 69631>>, <<69710, 69713>>, <<69750, 69758>>, <<69821, 69821>>,
      <<69827, 69839>>, <<69865, 69871>>, <<69882, 69887>>, <<69941, 69941>>,
      <<69960, 69967>>, <<70007, 70015>>, <<70112, 70112>>, <<70133, 70143>>,
      <<70162, 70162>>, <<70207, 70271>>, <<70279, 70279>>, <<70281, 70281>>,
      <<70286, 70286>>, <<70302, 70302>>, <<70314, 70319>>, <<70379, 70383>>,
      <<70394, 70399>>, <<70404, 70404>>, <<70413, 70414>>, <<70417, 70418>>,
      <<70441, 70441>>, <<70449, 70449>>, <<70452, 70452>>, <<70458, 70458>>,
      <<70469, 70470>>, <<70473, 70474>>, <<70478, 70479>>, <<70481, 70486>>,
      <<70488, 70492>>, <<70500, 70501>>, <<70509, 70511>>, <<70517, 70655>>,
      <<70748, 70748>>, <<70754, 70783>>, <<70856, 70863>>, <<70874, 71039>>,
      <<71094, 71095>>, <<71134, 71167>>, <<71237, 71247>>, <<71258, 71263>>,
      <<71277, 71295>>, <<71354, 71359>>, <<71370, 71423>>, <<71451, 71452>>,
      <<71468, 71471>>, <<71495, 71679>>, <<71740, 71839>>, <<71923, 71934>>,
      <<71943, 71944>>, <<71946, 71947>>, <<71956, 71956>>, <<71959, 71959>>,
      <<71990, 71990>>, <<71993, 71994>>, <<72007, 72015>>, <<72026, 72095>>,
      <<72104, 72105>>, <<72152, 72153>>, <<72165, 72191>>, <<72264, 72271>>,
      <<72355, 72367>>, <<72441, 72703>>, <<72713, 72713>>, <<72759, 72759>>,
      <<72774, 72783>>, <<72813, 72815>>, <<72848, 72849>>, <<72872, 72872>>,
      <<72887, 72959>>, <<72967, 72967>>, <<72970, 72970>>, <<73015, 73017>>,
      <<73019, 73019>>, <<73022, 73022>>, <<73032, 73039>>, <<73050, 73055>>,
      <<73062, 73062>>, <<73065, 73065>>, <<73103, 73103>>, <<73106, 73106>>,
      <<73113, 73119>>, <<73130, 73439>>, <<73465, 73647>>, <<73649, 73663>>,
      <<73714, 73726>>, <<74650, 74751>>, <<74863, 74863>>, <<74869, 74879>>,
      <<75076, 77711>>, <<77811, 77823>>, <<78895, 82943>>, <<83527, 92159>>,
      <<92729, 92735>>, <<92767, 92767>>, <<92778, 92781>>, <<92863, 92863>>,
      <<92874, 92879>>, <<92910, 92911>>, <<92918, 92927>>, <<92998, 93007>>,
      <<93018, 93018>>, <<93026, 93026>>, <<93048, 93052>>, <<93072, 93759>>,
      <<93851, 93951>>, <<94027, 94030>>, <<94088, 94094>>, <<94112, 94175>>,
      <<94181, 94191>>, <<94194, 94207>>, <<100344, 100351>>,
      <<101590, 101631>>, <<101641, 110575>>, <<110580, 110580>>,
      <<110588, 110588>>, <<110591, 110591>>, <<110883, 110927>>,
      <<110931, 110947>>, <<110952, 110959>>, <<111356, 113663>>,
      <<113771, 113775>>, <<113789, 113791>>, <<113801, 113807>>,
      <<113818, 113819>>, <<113824, 118527>>, <<118574, 118575>>,
      <<118599, 118607>>, <<118724, 118783>>, <<119030, 119039>>,
      <<119079, 119080>>, <<119155, 119162>>, <<119275, 119295>>,
      <<119366, 119519>>, <<119540, 119551>>, <<119639, 119647>>,
      <<119673, 119807>>, <<119893, 119893>>, <<119965, 119965>>,
      <<119968, 119969>>, <<119971, 119972>>, <<119975, 119976>>,
      <<119981, 119981>>, <<119994, 119994>>, <<119996, 119996>>,
      <<120004, 120004>>, <<120070, 120070>>, <<120075, 120076>>,
      <<120085, 120085>>, <<120093, 120093>>, <<120122, 120122>>,
      <<120127, 120127>>, <<120133, 120133>>, <<120135, 120137>>,
      <<120145, 120145>>, <<120486, 120487>>, <<120780, 120781>>,
      <<121484, 121498>>, <<121504, 121504>>, <<121520, 122623>>,
      <<122655, 122879>>, <<122887, 122887>>, <<122905, 122906>>,
      <<122914, 122914>>, <<122917, 122917>>, <<122923, 123135>>,
      <<123181, 123183>>, <<123198, 123199>>, <<123210, 123213>>,
      <<123216, 123535>>, <<123567, 123583>>, <<123642, 123646>>,
      <<123648, 124895>>, <<124903, 124903>>, <<124908, 124908>>,
      <<124911, 124911>>, <<124927, 124927>>, <<125125, 125126>>,
      <<125143, 125183>>, <<125260, 125263>>, <<125274, 125277>>,
      <<125280, 126064>>, <<126133, 126208>>, <<126270, 126463>>,
      <<126468, 126468>>, <<126496, 126496>>, <<126499, 126499>>,
      <<126501, 126502>>, <<126504, 126504>>, <<126515, 126515>>,
      <<126520, 126520>>, <<126522, 126522>>, <<126524, 126529>>,
      <<126531, 126534>>, <<126536, 126536>>, <<126538, 126538>>,
      <<126540, 126540>>, <<126544, 126544>>, <<126547, 126547>>,
      <<126549, 126550>>, <<126552, 126552>>, <<126554, 126554>>,
      <<126556, 126556>>, <<126558, 126558>>, <<126560, 126560>>,
      <<126563, 126563>>, <<126565, 126566>>, <<126571, 126571>>,
      <<126579, 126579>>, <<126584, 126584>>, <<126589, 126589>>,
      <<126591, 126591>>, <<126602, 126602>>, <<126620, 126624>>,
      <<126628, 126628>>, <<126634, 126634>>, <<126652, 126703>>,
      <<126706, 126975>>, <<127020, 127023>>, <<127124, 127135>>,
      <<127151, 127152>>, <<127168, 127168>>, <<127184, 127184>>,
      <<127222, 127231>>, <<127406, 127461>>, <<127491, 127503>>,
      <<127548, 127551>>, <<127561, 127567>>, <<127570, 127583>>,
      <<127590, 127743>>, <<128728, 128732>>, <<128749, 128751>>,
      <<128765, 128767>>, <<128884, 128895>>, <<128985, 128991>>,
      <<129004, 129007>>, <<129009, 129023>>, <<129036, 129039>>,
      <<129096, 129103>>, <<129114, 129119>>, <<129160, 129167>>,
      <<129198, 129199>>, <<129202, 129279>>, <<129620, 129631>>,
      <<129646, 129647>>, <<129653, 129655>>, <<129661, 129663>>,
      <<129671, 129679>>, <<129709, 129711>>, <<129723, 129727>>,
      <<129734, 129743>>, <<129754, 129759>>, <<129768, 129775>>,
      <<129783, 129791>>, <<129939, 129939>>, <<129995, 130031>>,
      <<130042, 131071>>, <<173792, 173823>>, <<177977, 177983>>,
      <<178206, 178207>>, <<183970, 183983>>, <<191457, 194559>>,
      <<195102, 196607>>, <<201547, 917759>>, <<918000, 1114111>>>>

\* the lower-case hexadecimal digits
HexDigits ==
    Text(<<"0", "1", "2", "3", "4", "5", "6", "7", "8", "9", "a", "b", "c",
           "d", "e", "f">>)

(***************************************************************************)
(* Keys                                                                    *)
(***************************************************************************)
\* 'backup/'
BackupPrefix == Text(<<"b", "a", "c", "k", "u", "p", "/">>)

\* f"backup/{timestamp}/{obj['Key']}"
BackupKey(stamp, key) == BackupPrefix \o stamp \o Text(<<"/">>) \o key

\* key.startswith('backup/'), the Prefix of the retention listing
HasBackupPrefix(key) ==
    /\ Len(key) >= Len(BackupPrefix)
    /\ SubSeq(key, 1, Len(BackupPrefix)) = BackupPrefix

RECURSIVE KeyLess(_, _)
\* k1 < k2 in the key order of list_objects_v2: byte order of the UTF-8
\* text, which is the order of the code points
KeyLess(k1, k2) ==
    IF k1 = <<>> THEN k2 # <<>>
    ELSE IF k2 = <<>> THEN FALSE
    ELSE IF Head(k1) # Head(k2) THEN Head(k1) < Head(k2)
    ELSE KeyLess(Tail(k1), Tail(k2))

RECURSIVE SortedKeys(_)
\* the keys of S in listing order
SortedKeys(S) ==
    IF S = {} THEN <<>>
    ELSE LET m == CHOOSE k \in S : \A o \in S \ {k} : KeyLess(k, o)
         IN  <<m>> \o SortedKeys(S \ {m})

(***************************************************************************)
(* Time                                                                    *)
(***************************************************************************)
\* strftime('%Y%m%d_%H%M%S'): the reading truncated to whole seconds, as
\* digits of a fixed width
FormatTs(now) ==
    LET n == now \div TicksPerSec
    IN  <<Ord("0") + ((n \div 1000) % 10), Ord("0") + ((n \div 100) % 10),
          Ord("0") + ((n \div 10) % 10), Ord("0") + (n % 10)>>

\* the LastModified S3 gives an object written at `now`: whole seconds, UTC
S3Time(now) == [wall |-> (now \div TicksPerSec) * TicksPerSec, off |-> 0]

\* the instant a timezone-aware datetime denotes
Instant(lm) == lm.wall - lm.off

\* obj['LastModified'].replace(tzinfo=None): the offset is dropped
StripTz(lm) == lm.wall

\* timedelta(days=...) takes at most this many days, either way
TimedeltaMaxDays == 999999999

\* datetime.utcnow() - timedelta(days=retention_days) raises no
\* OverflowError: the days fit a timedelta and the date is one between
\* datetime.min (0) and datetime.max
CutoffOk(now, days) ==
    /\ days <= TimedeltaMaxDays /\ 0 - days <= TimedeltaMaxDays
    /\ days > 0 => days <= now \div DayTicks
    /\ days < 0 => 0 - days <= (DatetimeMax - now) \div DayTicks

\* datetime.utcnow() - timedelta(days=retention_days)
Cutoff(now, days) == now - days * DayTicks

\* Expired with <= for <: an object exactly at the cutoff is deleted
ExpiredInclusive(obj, cutoff) == StripTz(obj.LastModified) <= cutoff

\* obj['LastModified'].replace(tzinfo=None) < cutoff_date
Expired(obj, cutoff) == StripTz(obj.LastModified) < cutoff

(***************************************************************************)
(* Configuration                                                           *)
(***************************************************************************)
\* os.environ.get(name, default); an unset variable is <<>>, a set one <<v>>
EnvGet(e, default) == IF e = <<>> THEN default ELSE e[1]

\* sys.get_int_max_str_digits(): the longest literal int() converts
MaxStrDigits == 4300

\* c is a decimal digit
IsDigit(c) == InRanges(DecimalDigits, c)

\* the value of the decimal digit c
DigitVal(c) ==
    LET r == CHOOSE n \in 1..Len(DecimalDigits) :
                 DecimalDigits[n][1] <= c /\ c <= DecimalDigits[n][2]
    IN  (c - DecimalDigits[r][1]) % 10

\* the white space int() strips
IsSpace(c) == InRanges(Spaces, c)

\* s without the white space in front of it
StripLeft(s) ==
    LET rest == {n \in 1..Len(s) : ~IsSpace(s[n])}
    IN  IF rest = {} THEN <<>>
        ELSE SubSeq(s, CHOOSE n \in rest : \A m \in rest : n <= m, Len(s))

\* s without the white space behind it
StripRight(s) ==
    LET rest == {n \in 1..Len(s) : ~IsSpace(s[n])}
    IN  IF rest = {} THEN <<>>
        ELSE SubSeq(s, 1, CHOOSE n \in rest : \A m \in rest : m <= n)

\* what follows the white space in front and the sign, if there is one
AfterSign(s) ==
    LET t == StripLeft(s)
    IN  IF t # <<>> /\ Head(t) \in {Ord("-"), Ord("+")} THEN Tail(t) ELSE t

\* the digits and underscores int() scans: the longest run of them there
DigitRun(s) ==
    LET t    == AfterSign(s)
        stop == {n \in 1..Len(t) : ~(IsDigit(t[n]) \/ t[n] = Ord("_"))}
    IN  IF stop = {} THEN t
        ELSE SubSeq(t, 1, (CHOOSE n \in stop : \A m \in stop : n <= m) - 1)

\* the run d is digits with single underscores between them
RunOk(d) ==
    /\ d # <<>>
    /\ IsDigit(d[1]) /\ IsDigit(d[Len(d)])
    /\ \A n \in 1..(Len(d) - 1) : ~(d[n] = Ord("_") /\ d[n + 1] = Ord("_"))

\* the number of digits of the run d
CountDigits(d) == Cardinality({n \in 1..Len(d) : IsDigit(d[n])})

\* int(s) raises for the length of the literal: a well-formed run of more
\* than MaxStrDigits digits, whatever follows it
TooManyDigits(s) ==
    RunOk(DigitRun(s)) /\ CountDigits(DigitRun(s)) > MaxStrDigits

\* the digits and underscores of a literal: what is left of it without the
\* white space around it and the sign
Unsigned(s) ==
    LET t == StripRight(StripLeft(s))
    IN  IF t # <<>> /\ Head(t) \in {Ord("-"), Ord("+")} THEN Tail(t) ELSE t

\* int(s) succeeds (no ValueError): a well-formed run of at most
\* MaxStrDigits digits, and nothing but white space behind it
IntOk(s) ==
    /\ RunOk(DigitRun(s))
    /\ CountDigits(DigitRun(s)) <= MaxStrDigits
    /\ Unsigned(s) = DigitRun(s)

RECURSIVE DigitsValue(_)
\* the number the digits d write, underscores skipped
DigitsValue(d) ==
    IF d = <<>> THEN 0
    ELSE IF d[Len(d)] = Ord("_") THEN DigitsValue(SubSeq(d, 1, Len(d) - 1))
    ELSE 10 * DigitsValue(SubSeq(d, 1, Len(d) - 1)) + DigitVal(d[Len(d)])

\* int(s) for a literal int() accepts
ParseInt(s) ==
    IF Head(StripLeft(s)) = Ord("-") THEN 0 - DigitsValue(Unsigned(s))
    ELSE DigitsValue(Unsigned(s))

RECURSIVE Decimal(_)
\* str(n) of a natural number
Decimal(n) ==
    IF n < 10 THEN <<Ord("0") + n>>
    ELSE Decimal(n \div 10) \o <<Ord("0") + (n % 10)>>

RECURSIVE Hex(_, _)
\* c in hexadecimal, on `width` digits
Hex(c, width) ==
    IF width = 0 THEN <<>>
    ELSE Hex(c \div 16, width - 1) \o <<HexDigits[(c % 16) + 1]>>

\* the character c as repr() writes it between the quotes q
EscapedChar(c, q) ==
    CASE c = Ord("\\") \/ c = q -> <<Ord("\\"), c>>
      [] c = 9 -> Text(<<"\\", "t">>)
      [] c = 10 -> Text(<<"\\", "n">>)
      [] c = 13 -> Text(<<"\\", "r">>)
      [] c \notin {9, 10, 13} /\ InRanges(NonPrintable, c) ->
            IF c < 256 THEN Text(<<"\\", "x">>) \o Hex(c, 2)
            ELSE IF c < 65536 THEN Text(<<"\\", "u">>) \o Hex(c, 4)
            ELSE Text(<<"\\", "U">>) \o Hex(c, 8)
      [] OTHER -> <<c>>

RECURSIVE Escaped(_, _)
\* the characters of s as repr() writes them between the quotes q
Escaped(s, q) ==
    IF s = <<>> THEN <<>>
    ELSE IF Len(s) = 1 THEN EscapedChar(s[1], q)
    ELSE LET half == Len(s) \div 2
         IN  Escaped(SubSeq(s, 1, half), q)
                \o Escaped(SubSeq(s, half + 1, Len(s)), q)

\* repr(s) of a str: in double quotes when s holds ' and no ", else in '
Repr(s) ==
    LET has(c) == \E n \in 1..Len(s) : s[n] = c
        q      == IF has(Ord("'")) /\ ~has(Ord("\"")) THEN Ord("\"")
                  ELSE Ord("'")
    IN  <<q>> \o Escaped(s, q) \o <<q>>

\* the first n characters of s, all of s when it has no more
Truncated(s, n) == IF Len(s) > n THEN SubSeq(s, 1, n) ELSE s

\* os.environ.get('RETENTION_DAYS', '30')
DefaultRetention == Text(<<"3", "0">>)

(***************************************************************************)
(* The object store                                                        *)
(***************************************************************************)
Buckets == {"A", "B"}

EmptyMeta == [n \in {} |-> ""]

EmptyBucket == [k \in {} |-> 0]

\* the descriptor list_objects_v2 gives for the object at `key`
Descriptor(bucket, key) ==
    [Key |-> key, Size |-> Len(bucket[key].body),
     LastModified |-> bucket[key].lm]

\* one page of list_objects_v2(Bucket, Prefix, ContinuationToken)
ListPage(bucket, prefixed, tok) ==
    LET cand == {k \in DOMAIN bucket :
                    /\ prefixed => HasBackupPrefix(k)
                    /\ tok # <<>> => KeyLess(tok[1], k)}
        keys == SortedKeys(cand)
        n    == IF Len(keys) < PageSize THEN Len(keys) ELSE PageSize
    IN  [Contents    |-> [x \in 1..n |-> Descriptor(bucket, keys[x])],
         IsTruncated |-> Len(keys) > PageSize,
         NextToken   |-> IF n = 0 THEN <<>> ELSE <<keys[n]>>]

\* the metadata S3 stores on a copy: without MetadataDirective='REPLACE'
\* the directive is COPY and the Metadata of the request is ignored
StoredMetadata(srcMeta, reqMeta, directive) ==
    IF directive = "REPLACE" THEN reqMeta ELSE srcMeta

\* the store after copy_object succeeded
CopyInto(store, srcBucket, srcKey, dstBucket, dstKey, reqMeta, directive, now) ==
    LET o == store[srcBucket][srcKey]
        n == [body |-> o.body, lm |-> S3Time(now),
              meta |-> StoredMetadata(o.meta, reqMeta, directive)]
        b == store[dstBucket]
    IN  [store EXCEPT ![dstBucket] =
            [k \in DOMAIN b \cup {dstKey} |-> IF k = dstKey THEN n ELSE b[k]]]

\* the store after delete_object succeeded
DeleteFrom(store, bucket, key) ==
    LET b == store[bucket]
    IN  [store EXCEPT ![bucket] = [k \in DOMAIN b \ {key} |-> b[k]]]

(***************************************************************************)
(* Exceptions and responses                                                *)
(***************************************************************************)
\* an exception is its type and the text str() gives
NoException == [type |-> "none", msg |-> <<>>]

\* botocore.exceptions.ClientError raised by a failing call
ClientError ==
    [type |-> "ClientError",
     msg  |-> Text(<<"A", "n", " ", "e", "r", "r", "o", "r", " ", "o", "c",
                     "c", "u", "r", "r", "e", "d", " ", "(", "I", "n", "t",
                     "e", "r", "n", "a", "l", "E", "r", "r", "o", "r", ")",
                     " ", "w", "h", "e", "n", " ", "c", "a", "l", "l", "i",
                     "n", "g", " ", "t", "h", "e", " ", "o", "p", "e", "r",
                     "a", "t", "i", "o", "n">>)]

\* botocore.exceptions.ParamValidationError: Bucket=None
ParamValidationError ==
    [type |-> "ParamValidationError",
     msg  |-> Text(<<"P", "a", "r", "a", "m", "e", "t", "e", "r", " ", "v",
                     "a", "l", "i", "d", "a", "t", "i", "o", "n", " ", "f",
                     "a", "i", "l", "e", "d">>)]

\* the repr of the literal in the message is cut after this many characters
\* ("%.200R")
ReprLimit == 200

\* 'invalid literal for int() with base 10: '
InvalidLiteral ==
    Text(<<"i", "n", "v", "a", "l", "i", "d", " ", "l", "i", "t", "e", "r",
           "a", "l", " ", "f", "o", "r", " ", "i", "n", "t", "(", ")", " ",
           "w", "i", "t", "h", " ", "b", "a", "s", "e", " ", "1", "0", ":",
           " ">>)

\* the message of a literal of n digits, too long to convert
ExceedsLimit(n) ==
    Text(<<"E", "x", "c", "e", "e", "d", "s", " ", "t", "h", "e", " ", "l",
           "i", "m", "i", "t", " ", "(">>) \o Decimal(MaxStrDigits)
    \o Text(<<" ", "d", "i", "g", "i", "t", "s", ")", " ", "f", "o", "r", " ",
           "i", "n", "t", "e", "g", "e", "r", " ", "s", "t", "r", "i", "n",
           "g", " ", "c", "o", "n", "v", "e", "r", "s", "i", "o", "n", ":",
           " ", "v", "a", "l", "u", "e", " ", "h", "a", "s", " ">>)
    \o Decimal(n)
    \o Text(<<" ", "d", "i", "g", "i", "t", "s", ";", " ", "u", "s", "e", " ",
           "s", "y", "s", ".", "s", "e", "t", "_", "i", "n", "t", "_", "m",
           "a", "x", "_", "s", "t", "r", "_", "d", "i", "g", "i", "t", "s",
           "(", ")", " ", "t", "o", " ", "i", "n", "c", "r", "e", "a", "s",
           "e", " ", "t", "h", "e", " ", "l", "i", "m", "i", "t">>)

\* the ValueError of int(text)
ValueError(text) ==
    [type |-> "ValueError",
     msg  |-> IF TooManyDigits(text)
              THEN ExceedsLimit(CountDigits(DigitRun(text)))
              ELSE InvalidLiteral \o Truncated(Repr(text), ReprLimit)]

\* response['Metadata']['original-key'] on metadata without that name
KeyError == [type |-> "KeyError", msg |-> Text(<<"'", "o", "r", "i", "g",
                                                 "i", "n", "a", "l", "-",
                                                 "k", "e", "y", "'">>)]

\* str(e)
Str(e) == e.msg

\* the error of a call on `bucket` (an optional name) that fails
CallError(bucket) == IF bucket = <<>> THEN ParamValidationError ELSE ClientError

Running == [kind |-> "none"]

Return(value) == [kind |-> "return", value |-> value]

\* the early return of lambda_handler; the body is the object json.dumps writes
NoObjectsResponse(stamp) ==
    [statusCode |-> 200,
     body |-> [message |-> "No objects to backup", timestamp |-> stamp]]

\* the final return of lambda_handler
SuccessResponse(stamp, count, size) ==
    [statusCode |-> 200,
     body |-> [message |-> "Backup completed successfully",
               timestamp |-> stamp,
               objects_backed_up |-> count,
               total_size_bytes |-> size]]

\* the return of lambda_handler's except clause
FailureResponse(e) ==
    [statusCode |-> 500,
     body |-> [message |-> "Backup failed", error |-> Str(e)]]

(***************************************************************************)
(* boto3 requests, as recorded in log                                      *)
(***************************************************************************)
ListCall(bucket, prefixed, tok, ok) ==
    [op |-> "list_objects_v2", Bucket |-> bucket, Prefix |-> prefixed,
     Token |-> tok, ok |-> ok]

\* the Metadata argument of the backup copy
BackupMetadata(source_bucket, stamp, obj) ==
    ("original-bucket" :> source_bucket) @@
    ("original-key" :> obj.Key) @@
    ("backup-timestamp" :> stamp) @@
    ("original-size" :> ToString(obj.Size)) @@
    ("original-last-modified" :> obj.LastModified)

\* s3_client.copy_object(...) of the backup loop
BackupCopyCall(source_bucket, target, stamp, obj, ok) ==
    [op |-> "copy_object",
     CopySource |-> [Bucket |-> source_bucket, Key |-> obj.Key],
     Bucket |-> target.Bucket,
     Key |-> target.Key,
     Metadata |-> BackupMetadata(source_bucket, stamp, obj),
     ok |-> ok]

DeleteCall(bucket, key, ok) ==
    [op |-> "delete_object", Bucket |-> bucket, Key |-> key, ok |-> ok]

\* the MetricData of send_metrics; each entry reads datetime.utcnow()
MetricData(count, size, t1, t2, t3) ==
    << [MetricName |-> "BackupObjectsCount", Value |-> count,
        Unit |-> "Count", Timestamp |-> t1],
       [MetricName |-> "BackupSizeBytes", Value |-> size,
        Unit |-> "Bytes", Timestamp |-> t2],
       [MetricName |-> "BackupSuccess", Value |-> 1,
        Unit |-> "Count", Timestamp |-> t3] >>

MetricCall(data, ok) ==
    [op |-> "put_metric_data", Namespace |-> "MapReduce/Backup",
     MetricData |-> data, ok |-> ok]

\* cleanup_old_backups(bucket_name, retention_days) is called; ok: the
\* cutoff could be computed
CleanupCall(bucket, days, ok) ==
    [op |-> "cleanup_old_backups", Bucket |-> bucket, Days |-> days,
     ok |-> ok]

HeadCall(bucket, key, ok) ==
    [op |-> "head_object", Bucket |-> bucket, Key |-> key, ok |-> ok]

RestoreCopyCall(backup_bucket, backup_key, source_bucket, key, ok) ==
    [op |-> "copy_object",
     CopySource |-> [Bucket |-> backup_bucket, Key |-> backup_key],
     Bucket |-> source_bucket, Key |-> key, ok |-> ok]

\* the outcomes a call on `bucket` can have: a call without a bucket name
\* or on a missing object can only fail
Outcomes(possible) == IF possible THEN BOOLEAN ELSE {FALSE}

(***************************************************************************)
(* Initial states: a deployment (env) and the two buckets                  *)
(***************************************************************************)
\* a LastModified older than the default retention of 30 days
VeryOld == S3Time(StartClock - 31 * DayTicks)

\* the timestamp of a backup run of long ago
OldStamp == FormatTs(StartClock - 40 * DayTicks)

\* LastModified values just before, at and just after one day before StartClock
NearCutoff ==
    {S3Time(StartClock - DayTicks + d * TicksPerSec) : d \in {0 - 1, 0, 1}}

\* the keys of the source files: 'a' and 'b'
SourceNames == {Text(<<"a">>), Text(<<"b">>)}

SourceBody(key) == IF key = Text(<<"a">>) THEN <<7>> ELSE <<7, 8>>

OldBackupKey == BackupKey(OldStamp, Text(<<"a">>))

\* 'keep', a key of the backup bucket outside backup/
KeepKey == Text(<<"k", "e", "e", "p">>)

\* the metadata of a backup whose copy did replace the metadata
OldBackupMeta ==
    BackupMetadata(<<"A">>, OldStamp,
                   [Key |-> Text(<<"a">>), Size |-> 1, LastModified |-> VeryOld])

\* ' 1\n': a one between a space and a line feed
SpacedOne == <<Ord(" "), Ord("1"), 10>>

\* RETENTION_DAYS: unset, ' 1\n', '0', '-1', 'x', and '9_9' and '-99', whose
\* cutoffs lie before datetime.min and after datetime.max
RetentionEnvs ==
    {<<>>, <<SpacedOne>>, <<Text(<<"0">>)>>, <<Text(<<"-", "1">>)>>,
     <<Text(<<"x">>)>>, <<Text(<<"9", "_", "9">>)>>,
     <<Text(<<"-", "9", "9">>)>>}

\* a bucket holding the objects `old` (key -> object) and the named files
BucketWith(names, old) ==
    [k \in names \cup DOMAIN old |->
        IF k \in DOMAIN old THEN old[k]
        ELSE [body |-> SourceBody(k), lm |-> VeryOld, meta |-> EmptyMeta]]

\* the choices of earlier content of the backup bucket
OldContents(lms, metas) ==
    LET backups == {EmptyBucket} \cup
                   {OldBackupKey :> [body |-> <<9>>, lm |-> l, meta |-> m] :
                        l \in lms, m \in metas}
        keeps   == {EmptyBucket,
                    KeepKey :>
                        [body |-> <<5>>, lm |-> VeryOld, meta |-> EmptyMeta]}
    IN  {b @@ k : b \in backups, k \in keeps}

\* the store: the source files are in A, the earlier backups in `holder`
StoreWith(names, old, holder) ==
    [b \in Buckets |->
        BucketWith(IF b = "A" THEN names ELSE {},
                   IF b = holder THEN old ELSE EmptyBucket)]

InitLocals ==
    /\ sink = <<>>
    /\ clock = StartClock
    /\ pc = "idle"
    /\ timestamp = 0
    /\ retention_days = 0
    /\ objects = <<>>
    /\ token = <<>>
    /\ source_objects = <<>>
    /\ i = 0
    /\ backup_count = 0
    /\ total_size = 0
    /\ cutoff_date = 0
    /\ page = <<>>
    /\ more = FALSE
    /\ j = 0
    /\ exc = NoException
    /\ args = [source_bucket |-> "", backup_bucket |-> "",
               backup_key |-> <<>>]
    /\ original_key = <<>>
    /\ outcome = Running
    /\ log = <<>>
    /\ s3_start = s3
    /\ s3_cleanup = s3

Init ==
    /\ env \in [SOURCE_BUCKET  : {<<>>, <<"A">>},
                BACKUP_BUCKET  : {<<>>, <<"A">>, <<"B">>},
                RETENTION_DAYS : RetentionEnvs]
    /\ \E names \in SUBSET SourceNames :
       \E old \in OldContents({VeryOld} \cup NearCutoff, {OldBackupMeta}) :
          s3 = StoreWith(names, old, EnvGet(env.BACKUP_BUCKET, "B"))
    /\ InitLocals

(***************************************************************************)
(* lambda_handler                                                          *)
(***************************************************************************)
hvars == <<args, original_key>>

\* lines 19-28: read the configuration, capture the timestamp
Invoke ==
    /\ pc = "idle"
    /\ LET text == EnvGet(env.RETENTION_DAYS, DefaultRetention)
       IN  IF IntOk(text)
           THEN /\ retention_days' = ParseInt(text)
                /\ timestamp' = FormatTs(clock)
                /\ objects' = <<>>
                /\ token' = <<>>
                /\ pc' = "list_source"
                /\ UNCHANGED exc
           ELSE /\ exc' = ValueError(text)
                /\ pc' = "except"
                /\ UNCHANGED <<retention_days, timestamp, objects, token>>
    /\ UNCHANGED <<env, s3, sink, clock, source_objects, i, backup_count,
                   total_size, cutoff_date, page, more, j, outcome, log,
                   s3_start, s3_cleanup, hvars>>

\* NoObjects without the early return
NoObjectsIgnored(listing) == FALSE

\* line 33: if not source_objects
NoObjects(listing) == listing = <<>>

\* lines 112-123, one page that arrives: extend objects; after the last page
\* return to lambda_handler, lines 31-45
ListSourcePage ==
    /\ pc = "list_source"
    /\ env.SOURCE_BUCKET # <<>>
    /\ LET p   == ListPage(s3[env.SOURCE_BUCKET[1]], FALSE, token)
           all == objects \o p.Contents
       IN  /\ log' = Append(log, ListCall(env.SOURCE_BUCKET, FALSE, token, TRUE))
           /\ IF p.IsTruncated
              THEN /\ objects' = all
                   /\ token' = p.NextToken
                   /\ UNCHANGED <<pc, source_objects, i, backup_count,
                                  total_size, outcome>>
              ELSE /\ objects' = all
                   /\ source_objects' = all
                   /\ UNCHANGED token
                   /\ IF NoObjects(all)
                      THEN /\ outcome' = Return(NoObjectsResponse(timestamp))
                           /\ pc' = "done"
                           /\ UNCHANGED <<i, backup_count, total_size>>
                      ELSE /\ backup_count' = 0
                           /\ total_size' = 0
                           /\ i' = 1
                           /\ pc' = IF Len(all) = 0 THEN "cleanup" ELSE "copy"
                           /\ UNCHANGED outcome
    /\ UNCHANGED <<env, s3, sink, clock, timestamp, retention_days,
                   cutoff_date, page, more, j, exc, s3_start, s3_cleanup,
                   hvars>>

\* ListSourceFail without the raise: the pages read so far are returned
ListSourceFailPartial ==
    /\ pc = "list_source"
    /\ log' = Append(log, ListCall(env.SOURCE_BUCKET, FALSE, token, FALSE))
    /\ source_objects' = objects
    /\ backup_count' = 0
    /\ total_size' = 0
    /\ i' = 1
    /\ IF objects = <<>>
       THEN outcome' = Return(NoObjectsResponse(timestamp)) /\ pc' = "done"
       ELSE pc' = "copy" /\ UNCHANGED outcome
    /\ UNCHANGED <<env, s3, sink, clock, timestamp, retention_days, objects,
                   token, cutoff_date, page, more, j, exc, s3_start,
                   s3_cleanup, hvars>>

\* lines 119-121: a page fails; the error is logged and raised again, and
\* nothing of the pages read so far is returned
ListSourceFail ==
    /\ pc = "list_source"
    /\ log' = Append(log, ListCall(env.SOURCE_BUCKET, FALSE, token, FALSE))
    /\ exc' = CallError(env.SOURCE_BUCKET)
    /\ pc' = "except"
    /\ UNCHANGED <<env, s3, sink, clock, timestamp, retention_days, objects,
                   token, source_objects, i, backup_count, total_size,
                   cutoff_date, page, more, j, outcome, s3_start, s3_cleanup,
                   hvars>>

\* Tally with the increments ahead of the copy: a failed copy is counted
TallyAttempts(ok, count, size, obj) ==
    [count |-> count + 1, size |-> size + obj.Size]

\* lines 71-72 and 76-78: the tallies after the copy of obj
Tally(ok, count, size, obj) ==
    IF ok THEN [count |-> count + 1, size |-> size + obj.Size]
    ELSE [count |-> count, size |-> size]

\* AfterCopy with break for continue: a failed copy ends the loop
AfterCopyBreak(ok, at, n) == IF ok /\ at < n THEN "copy" ELSE "cleanup"

\* lines 47 and 78: where the loop goes after the copy of the obj at `at`
AfterCopy(ok, at, n) == IF at < n THEN "copy" ELSE "cleanup"

\* BackupTarget with the buckets swapped: the copy lands in the source bucket
BackupTargetInSource(source_bucket, backup_bucket, stamp, obj) ==
    [Bucket |-> source_bucket, Key |-> BackupKey(stamp, obj.Key)]

\* lines 58-61: the bucket and key the backup copy writes
BackupTarget(source_bucket, backup_bucket, stamp, obj) ==
    [Bucket |-> backup_bucket, Key |-> BackupKey(stamp, obj.Key)]

\* lines 47-78: one iteration of the backup loop
CopyObject ==
    /\ pc = "copy"
    /\ LET obj == source_objects[i]
           src == env.SOURCE_BUCKET
           dst == BackupTarget(src, env.BACKUP_BUCKET, timestamp, obj)
           can == /\ src # <<>>
                  /\ dst.Bucket # <<>>
                  /\ obj.Key \in DOMAIN s3[src[1]]
       IN  \E ok \in Outcomes(can) :
             /\ log' = Append(log, BackupCopyCall(src, dst, timestamp, obj, ok))
             /\ s3' = IF ok
                      THEN CopyInto(s3, src[1], obj.Key, dst.Bucket[1], dst.Key,
                                    BackupMetadata(src, timestamp, obj),
                                    "COPY", clock)
                      ELSE s3
             /\ backup_count' = Tally(ok, backup_count, total_size, obj).count
             /\ total_size' = Tally(ok, backup_count, total_size, obj).size
             /\ i' = i + 1
             /\ pc' = AfterCopy(ok, i, Len(source_objects))
    /\ UNCHANGED <<env, sink, clock, timestamp, retention_days, objects, token,
                   source_objects, cutoff_date, page, more, j, exc, outcome,
                   s3_start, s3_cleanup, hvars>>

(***************************************************************************)
(* cleanup_old_backups                                                     *)
(***************************************************************************)
\* lines 81 and 129-133: cleanup_old_backups is called and computes the
\* cutoff of this pass; an OverflowError of the subtraction is logged by
\* the except of lines 146-147 and the pass ends
CleanupBegin ==
    /\ pc = "cleanup"
    /\ s3_cleanup' = s3
    /\ log' = Append(log, CleanupCall(env.BACKUP_BUCKET, retention_days,
                                      CutoffOk(clock, retention_days)))
    /\ IF CutoffOk(clock, retention_days)
       THEN /\ cutoff_date' = Cutoff(clock, retention_days)
            /\ token' = <<>>
            /\ pc' = "cleanup_list"
       ELSE /\ pc' = "metrics"
            /\ UNCHANGED <<cutoff_date, token>>
    /\ UNCHANGED <<env, s3, sink, clock, timestamp, retention_days, objects,
                   source_objects, i, backup_count, total_size, page, more, j,
                   exc, outcome, s3_start, hvars>>

\* lines 135-137: where the pass goes with a page in hand
AfterPage(contents, truncated) ==
    IF contents # <<>> THEN "cleanup_object"
    ELSE IF truncated THEN "cleanup_list" ELSE "metrics"

\* lines 135-136: the paginator yields the next page of backup/
CleanupListPage ==
    /\ pc = "cleanup_list"
    /\ env.BACKUP_BUCKET # <<>>
    /\ LET p == ListPage(s3[env.BACKUP_BUCKET[1]], TRUE, token)
       IN  /\ log' = Append(log, ListCall(env.BACKUP_BUCKET, TRUE, token, TRUE))
           /\ page' = p.Contents
           /\ more' = p.IsTruncated
           /\ token' = p.NextToken
           /\ j' = 1
           /\ pc' = AfterPage(p.Contents, p.IsTruncated)
    /\ UNCHANGED <<env, s3, sink, clock, timestamp, retention_days, objects,
                   source_objects, i, backup_count, total_size, cutoff_date,
                   exc, outcome, s3_start, s3_cleanup, hvars>>

\* CleanupListFail without the outer try: the error reaches lambda_handler
CleanupListFailRaises ==
    /\ pc = "cleanup_list"
    /\ log' = Append(log, ListCall(env.BACKUP_BUCKET, TRUE, token, FALSE))
    /\ exc' = CallError(env.BACKUP_BUCKET)
    /\ pc' = "except"
    /\ UNCHANGED <<env, s3, sink, clock, timestamp, retention_days, objects,
                   token, source_objects, i, backup_count, total_size,
                   cutoff_date, page, more, j, outcome, s3_start, s3_cleanup,
                   hvars>>

\* CleanupListFail with one retry: the listing is asked a second time
CleanupListFailRetries ==
    /\ pc = "cleanup_list"
    /\ log' = Append(log, ListCall(env.BACKUP_BUCKET, TRUE, token, FALSE))
    /\ pc' = IF log[Len(log)].op = "list_objects_v2" /\ ~log[Len(log)].ok
             THEN "metrics" ELSE "cleanup_list"
    /\ UNCHANGED <<env, s3, sink, clock, timestamp, retention_days, objects,
                   token, source_objects, i, backup_count, total_size,
                   cutoff_date, page, more, j, exc, outcome, s3_start,
                   s3_cleanup, hvars>>

\* lines 146-147: the paginator fails; the error is logged and the pass ends
CleanupListFail ==
    /\ pc = "cleanup_list"
    /\ log' = Append(log, ListCall(env.BACKUP_BUCKET, TRUE, token, FALSE))
    /\ pc' = "metrics"
    /\ UNCHANGED <<env, s3, sink, clock, timestamp, retention_days, objects,
                   token, source_objects, i, backup_count, total_size,
                   cutoff_date, page, more, j, exc, outcome, s3_start,
                   s3_cleanup, hvars>>

\* lines 137 and 143-144: where the pass goes after the obj at `at`
AfterDelete(ok, at, n, truncated) ==
    IF at < n THEN "cleanup_object"
    ELSE IF truncated THEN "cleanup_list" ELSE "metrics"

\* lines 137-144: one obj of the page
CleanupObject ==
    /\ pc = "cleanup_object"
    /\ LET obj == page[j]
           b   == env.BACKUP_BUCKET
       IN  IF Expired(obj, cutoff_date)
           THEN \E ok \in BOOLEAN :
                  /\ log' = Append(log, DeleteCall(b, obj.Key, ok))
                  /\ s3' = IF ok THEN DeleteFrom(s3, b[1], obj.Key) ELSE s3
                  /\ pc' = AfterDelete(ok, j, Len(page), more)
           ELSE /\ pc' = AfterDelete(TRUE, j, Len(page), more)
                /\ UNCHANGED <<log, s3>>
    /\ j' = j + 1
    /\ UNCHANGED <<env, sink, clock, timestamp, retention_days, objects, token,
                   source_objects, i, backup_count, total_size, cutoff_date,
                   page, more, exc, outcome, s3_start, s3_cleanup, hvars>>

(***************************************************************************)
(* send_metrics, and the ends of lambda_handler                            *)
(***************************************************************************)
\* MetricArgs with the objects listed for the objects copied
MetricArgsListed(count, size, listing) ==
    [count |-> Len(listing), size |-> size]

\* line 84: the arguments lambda_handler gives send_metrics
MetricArgs(count, size, listing) == [count |-> count, size |-> size]

\* lines 84-96 and 153-178: build the three entries, each with its own
\* reading of the clock, emit them (a failure is logged and swallowed),
\* then return the summary
SendMetrics ==
    /\ pc = "metrics"
    /\ LET a == MetricArgs(backup_count, total_size, source_objects)
       IN  \E t2 \in clock..(StartClock + MaxTicks) :
           \E t3 \in t2..(StartClock + MaxTicks) :
           \E ok \in BOOLEAN :
             LET data == MetricData(a.count, a.size, clock, t2, t3)
             IN  /\ log' = Append(log, MetricCall(data, ok))
                 /\ sink' = IF ok THEN Append(sink, data) ELSE sink
                 /\ clock' = t3
    /\ outcome' = Return(SuccessResponse(timestamp, backup_count, total_size))
    /\ pc' = "done"
    /\ UNCHANGED <<env, s3, timestamp, retention_days, objects, token,
                   source_objects, i, backup_count, total_size, cutoff_date,
                   page, more, j, exc, s3_start, s3_cleanup, hvars>>

\* lines 98-106: the except clause of lambda_handler
HandlerExcept ==
    /\ pc = "except"
    /\ outcome' = Return(FailureResponse(exc))
    /\ pc' = "done"
    /\ UNCHANGED <<env, s3, sink, clock, timestamp, retention_days, objects,
                   token, source_objects, i, backup_count, total_size,
                   cutoff_date, page, more, j, exc, log, s3_start, s3_cleanup,
                   hvars>>

\* time passes while the handler runs
Tick ==
    /\ pc \notin {"idle", "done"}
    /\ clock < StartClock + MaxTicks
    /\ clock' = clock + 1
    /\ UNCHANGED <<env, s3, sink, pc, timestamp, retention_days, objects, token,
                   source_objects, i, backup_count, total_size, cutoff_date,
                   page, more, j, exc, outcome, log, s3_start, s3_cleanup,
                   hvars>>

Next ==
    \/ Invoke
    \/ ListSourcePage
    \/ ListSourceFail
    \/ CopyObject
    \/ CleanupBegin
    \/ CleanupListPage
    \/ CleanupListFail
    \/ CleanupObject
    \/ SendMetrics
    \/ HandlerExcept
    \/ Tick

Spec == Init /\ [][Next]_vars

(***************************************************************************)
(* restore_from_backup, an entry point of its own                          *)
(***************************************************************************)
rvars == <<timestamp, retention_days, objects, token, source_objects, i,
           backup_count, total_size, cutoff_date, page, more, j, sink, env,
           clock, s3_start, s3_cleanup>>

\* 'zz', a key no bucket holds
MissingKey == Text(<<"z", "z">>)

InitRestore ==
    /\ env = [SOURCE_BUCKET |-> <<"A">>, BACKUP_BUCKET |-> <<"B">>,
              RETENTION_DAYS |-> <<>>]
    /\ \E names \in SUBSET SourceNames :
       \E old \in OldContents({VeryOld}, {EmptyMeta, OldBackupMeta}) :
       \E holder \in Buckets :
          s3 = StoreWith(names, old, holder)
    /\ InitLocals

\* restore_from_backup(source_bucket, backup_bucket, backup_key) is called
RestoreBegin ==
    /\ pc = "idle"
    /\ \E sb \in Buckets, bb \in Buckets :
       \E key \in DOMAIN s3[bb] \cup {MissingKey} :
          args' = [source_bucket |-> sb, backup_bucket |-> bb,
                   backup_key |-> key]
    /\ pc' = "restore_head"
    /\ UNCHANGED <<s3, exc, original_key, outcome, log, rvars>>

\* line 187: response['Metadata']['original-key'] can be read
HasOriginalKey(meta) == "original-key" \in DOMAIN meta

\* lines 186-187: read the metadata of the backup and its original-key
RestoreHead ==
    /\ pc = "restore_head"
    /\ LET bb  == args.backup_bucket
           key == args.backup_key
       IN  \E ok \in Outcomes(key \in DOMAIN s3[bb]) :
             /\ log' = Append(log, HeadCall(bb, key, ok))
             /\ IF ~ok
                THEN /\ exc' = ClientError
                     /\ pc' = "restore_except"
                     /\ UNCHANGED original_key
                ELSE IF ~HasOriginalKey(s3[bb][key].meta)
                THEN /\ exc' = KeyError
                     /\ pc' = "restore_except"
                     /\ UNCHANGED original_key
                ELSE /\ original_key' = s3[bb][key].meta["original-key"]
                     /\ pc' = "restore_copy"
                     /\ UNCHANGED exc
    /\ UNCHANGED <<s3, args, outcome, rvars>>

\* RestoreTarget with the key of the backup for its original key
RestoreTargetBackupKey(source_bucket, backup_key, key) ==
    [Bucket |-> source_bucket, Key |-> backup_key]

\* lines 195-198: the bucket and key the restore copy writes
RestoreTarget(source_bucket, backup_key, key) ==
    [Bucket |-> source_bucket, Key |-> key]

\* lines 190-202: copy the backup to the source bucket and return True
RestoreCopy ==
    /\ pc = "restore_copy"
    /\ LET bb  == args.backup_bucket
           key == args.backup_key
           dst == RestoreTarget(args.source_bucket, key, original_key)
           can == /\ key \in DOMAIN s3[bb]
                  /\ ~(dst.Bucket = bb /\ dst.Key = key)
       IN  \E ok \in Outcomes(can) :
             /\ log' = Append(log,
                          RestoreCopyCall(bb, key, dst.Bucket, dst.Key, ok))
             /\ IF ok
                THEN /\ s3' = CopyInto(s3, bb, key, dst.Bucket, dst.Key,
                                       EmptyMeta, "COPY", clock)
                     /\ outcome' = Return(TRUE)
                     /\ pc' = "done"
                     /\ UNCHANGED exc
                ELSE /\ exc' = ClientError
                     /\ pc' = "restore_except"
                     /\ UNCHANGED <<s3, outcome>>
    /\ UNCHANGED <<args, original_key, rvars>>

\* lines 204-206: the except clause of restore_from_backup
RestoreExcept ==
    /\ pc = "restore_except"
    /\ outcome' = Return(FALSE)
    /\ pc' = "done"
    /\ UNCHANGED <<s3, exc, args, original_key, log, rvars>>

NextRestore ==
    \/ RestoreBegin
    \/ RestoreHead
    \/ RestoreCopy
    \/ RestoreExcept

SpecRestore == InitRestore /\ [][NextRestore]_vars

(***************************************************************************)
(* Reading a run off the state                                             *)
(***************************************************************************)
Done == pc = "done"

Response == outcome.value

\* the calls of the run of one kind, in order
CopyCalls == SelectSeq(log, LAMBDA c : c.op = "copy_object")

DeleteCalls == SelectSeq(log, LAMBDA c : c.op = "delete_object")

MetricCalls == SelectSeq(log, LAMBDA c : c.op = "put_metric_data")

SourceLists == SelectSeq(log, LAMBDA c : c.op = "list_objects_v2" /\ ~c.Prefix)

BackupLists == SelectSeq(log, LAMBDA c : c.op = "list_objects_v2" /\ c.Prefix)

Failed(calls) == \E n \in 1..Len(calls) : ~calls[n].ok

\* the run got past the source listing with a non-empty listing
Listed == source_objects # <<>>

\* the calls of cleanup_old_backups
Passes == SelectSeq(log, LAMBDA c : c.op = "cleanup_old_backups")

\* the retention pass of the run is over
PassOver == pc \in {"metrics", "done"} /\ Passes # <<>>

\* the pass could compute its cutoff
CutoffComputed == Passes # <<>> /\ Passes[1].ok

RECURSIVE SumSizes(_, _)
\* the sizes of the source objects whose index is in S, added up
SumSizes(listing, S) ==
    IF S = {} THEN 0
    ELSE LET n == CHOOSE x \in S : TRUE
         IN  listing[n].Size + SumSizes(listing, S \ {n})

\* the indices of the source objects whose copy succeeded
Copied == {n \in 1..Len(CopyCalls) : CopyCalls[n].ok}

ValidConfig ==
    /\ env.SOURCE_BUCKET # <<>>
    /\ env.BACKUP_BUCKET # <<>>
    /\ IntOk(EnvGet(env.RETENTION_DAYS, DefaultRetention))

(***************************************************************************)
(* C1: the summary of a run over a non-empty listing reports as            *)
(* objects_backed_up the number of source objects whose copy_object        *)
(* succeeded and as total_size_bytes the sum of the sizes of exactly       *)
(* those; so the count is at most len(source_objects), equal to it when    *)
(* no copy fails, and a failed object adds nothing to either.              *)
(***************************************************************************)
C1_SummaryTalliesSuccessfulCopies ==
    (Done /\ Listed /\ Response.statusCode = 200) =>
        /\ Len(CopyCalls) = Len(source_objects)
        /\ Response.body.objects_backed_up = Cardinality(Copied)
        /\ Response.body.total_size_bytes = SumSizes(source_objects, Copied)
        /\ Response.body.objects_backed_up <= Len(source_objects)
        /\ ~Failed(CopyCalls) =>
              Response.body.objects_backed_up = Len(source_objects)

\* a finished run of two objects in which exactly one copy failed
C1_Witness ==
    /\ Done /\ Listed /\ Response.statusCode = 200
    /\ Len(source_objects) = 2
    /\ Cardinality(Copied) = 1
    /\ Response.body.total_size_bytes > 0

(***************************************************************************)
(* C3: when a page of the source listing fails, lambda_handler returns     *)
(* statusCode 500 with a non-empty error message, and the run makes no     *)
(* copy_object call, no retention pass (no listing of backup/, no          *)
(* delete_object call) and no metrics emission.                            *)
(***************************************************************************)
C3_SourceListingFailure ==
    Failed(SourceLists) =>
        /\ CopyCalls = <<>> /\ DeleteCalls = <<>> /\ BackupLists = <<>>
        /\ Passes = <<>>
        /\ MetricCalls = <<>> /\ sink = <<>>
        /\ s3 = s3_start
        /\ Done => /\ outcome.kind = "return"
                   /\ Response.statusCode = 500
                   /\ DOMAIN Response.body = {"message", "error"}
                   /\ Response.body.error # <<>>

\* the second page of the source listing failed and the handler returned
C3_Witness ==
    /\ Done
    /\ Len(SourceLists) >= 2
    /\ ~SourceLists[Len(SourceLists)].ok
    /\ SourceLists[Len(SourceLists)].Token # <<>>

(***************************************************************************)
(* C4: when the source listing succeeds and is empty, lambda_handler       *)
(* returns statusCode 200 with a body of only the message "No objects to   *)
(* backup" and the timestamp, and the run makes no copy, no delete (the    *)
(* retention pass is not run) and no metrics call.                         *)
(***************************************************************************)
C4_EmptySourceListing ==
    (/\ Done /\ SourceLists # <<>> /\ ~Failed(SourceLists)
     /\ DOMAIN s3_start[env.SOURCE_BUCKET[1]] = {}) =>
        /\ outcome.kind = "return"
        /\ Response.statusCode = 200
        /\ DOMAIN Response.body = {"message", "timestamp"}
        /\ Response.body.message = "No objects to backup"
        /\ Response.body.timestamp = timestamp
        /\ CopyCalls = <<>> /\ DeleteCalls = <<>> /\ BackupLists = <<>>
        /\ Passes = <<>>
        /\ MetricCalls = <<>> /\ sink = <<>>
        /\ s3 = s3_start

\* an empty source bucket beside a backup bucket holding an expired backup
C4_Witness ==
    /\ Done /\ SourceLists # <<>> /\ ~Failed(SourceLists)
    /\ DOMAIN s3_start[env.SOURCE_BUCKET[1]] = {}
    /\ env.BACKUP_BUCKET = <<"B">>
    /\ OldBackupKey \in DOMAIN s3["B"]
    /\ s3["B"][OldBackupKey].lm = VeryOld

(***************************************************************************)
(* C5: with a valid configuration lambda_handler never raises and returns  *)
(* a response whose statusCode is 200 or 500: 500 exactly when the source  *)
(* listing fails, 200 whatever copies, the listing of the retention pass,  *)
(* deletes or the metrics emission fail.                                   *)
(***************************************************************************)
C5_AlwaysStructuredResponse ==
    /\ outcome.kind \in {"none", "return"}
    /\ Done =>
        /\ outcome.kind = "return"
        /\ Response.statusCode \in {200, 500}
        /\ ValidConfig => (Response.statusCode = 500 <=> Failed(SourceLists))

\* a run with RETENTION_DAYS ' 1\n' that answers 200 although every copy,
\* the listing of the retention pass and the metrics emission failed
C5_Witness ==
    /\ Done /\ ValidConfig
    /\ env.RETENTION_DAYS = <<SpacedOne>>
    /\ retention_days = 1
    /\ Response.statusCode = 200
    /\ Len(CopyCalls) = 2 /\ Copied = {}
    /\ Failed(BackupLists)
    /\ Failed(MetricCalls)

(***************************************************************************)
(* Reading a retention pass off the state                                  *)
(***************************************************************************)
\* the backup bucket as the pass found it and as it is now
Before == IF env.BACKUP_BUCKET = <<>> THEN EmptyBucket
          ELSE s3_cleanup[env.BACKUP_BUCKET[1]]

After == IF env.BACKUP_BUCKET = <<>> THEN EmptyBucket
         ELSE s3[env.BACKUP_BUCKET[1]]

\* the object at k was older than the cutoff when the pass began
WasExpired(k) == Instant(Before[k].lm) < cutoff_date

Deleted == DOMAIN Before \ DOMAIN After

\* the keys under backup/ on the pages the pass was given, in order
ListedKeys ==
    LET keys  == SortedKeys({k \in DOMAIN Before : HasBackupPrefix(k)})
        pages == Len(SelectSeq(BackupLists, LAMBDA c : c.ok))
        n     == IF pages * PageSize < Len(keys) THEN pages * PageSize
                 ELSE Len(keys)
    IN  SubSeq(keys, 1, n)

\* the calls of the retention pass, in order
PassCalls ==
    SelectSeq(log, LAMBDA c : \/ c.op = "delete_object"
                              \/ c.op = "list_objects_v2" /\ c.Prefix)

(***************************************************************************)
(* C2 as claimed: after a retention pass in which no listing call and no   *)
(* delete call fails, an object of the backup bucket has been deleted if   *)
(* and only if its key is under backup/ and its last-modified time is      *)
(* strictly earlier than cutoff = now - retention_days, now being a        *)
(* reading of the clock during the run; an object exactly at the cutoff,   *)
(* or newer, is retained.                                                  *)
(***************************************************************************)
C2_RetentionDeletesAllExpired ==
    (PassOver /\ ~Failed(BackupLists) /\ ~Failed(DeleteCalls)) =>
        \E now \in StartClock..clock :
           \A k \in DOMAIN Before :
              k \in Deleted <=>
                 /\ HasBackupPrefix(k)
                 /\ Instant(Before[k].lm) < now - retention_days * DayTicks

(***************************************************************************)
(* C2, amended: after a retention pass whose cutoff = now - retention_days *)
(* is a date the program can represent and in which no listing call and no *)
(* delete call fails, an object of the backup bucket has been deleted if   *)
(* and only if its key is under backup/ and its last-modified time is      *)
(* strictly earlier than the cutoff; an object exactly at the cutoff, or   *)
(* newer, is retained.  A pass whose cutoff cannot be represented makes no *)
(* listing and no delete call and deletes nothing, however old the         *)
(* backups are.                                                            *)
(***************************************************************************)
C2_RetentionDeletesExactlyExpired ==
    /\ (PassOver /\ CutoffComputed /\ ~Failed(BackupLists)
        /\ ~Failed(DeleteCalls)) =>
          /\ StartClock - retention_days * DayTicks <= cutoff_date
          /\ cutoff_date <= clock - retention_days * DayTicks
          /\ DOMAIN After \subseteq DOMAIN Before
          /\ \A k \in DOMAIN Before :
               /\ k \in Deleted <=> (HasBackupPrefix(k) /\ WasExpired(k))
               /\ k \notin Deleted => After[k] = Before[k]
    /\ (PassOver /\ ~CutoffComputed) =>
          /\ BackupLists = <<>> /\ DeleteCalls = <<>>
          /\ s3 = s3_cleanup

\* a pass without failures that deleted an expired backup, kept a backup
\* exactly at the cutoff and kept an old object outside backup/
C2_Witness ==
    /\ PassOver /\ CutoffComputed
    /\ ~Failed(BackupLists) /\ ~Failed(DeleteCalls)
    /\ \E k \in Deleted : TRUE
    /\ \E k \in DOMAIN After :
          HasBackupPrefix(k) /\ Instant(Before[k].lm) = cutoff_date
    /\ \E k \in DOMAIN After : ~HasBackupPrefix(k) /\ WasExpired(k)

(***************************************************************************)
(* C6: a per-object failure never aborts its batch.  Every listed source   *)
(* object gets exactly one copy attempt, in listing order, whatever        *)
(* earlier copies failed; every listed expired object of a retention pass  *)
(* gets exactly one delete attempt, whatever earlier deletes failed; and   *)
(* an object whose copy failed is not written to the backup bucket.        *)
(***************************************************************************)
C6_BatchesNeverAbort ==
    /\ Len(CopyCalls) <= Len(source_objects)
    /\ \A n \in 1..Len(CopyCalls) :
          CopyCalls[n].CopySource.Key = source_objects[n].Key
    /\ Listed =>
          [n \in 1..Len(source_objects) |-> source_objects[n].Key]
              = SortedKeys(DOMAIN s3_start[env.SOURCE_BUCKET[1]])
    /\ (Listed /\ pc \notin {"list_source", "copy"}) =>
          Len(CopyCalls) = Len(source_objects)
    /\ \A n \in 1..Len(CopyCalls) :
          (~CopyCalls[n].ok /\ CopyCalls[n].Bucket # <<>>) =>
              LET b == CopyCalls[n].Bucket[1]
                  k == CopyCalls[n].Key
              IN  k \in DOMAIN s3[b] =>
                     k \in DOMAIN s3_start[b] /\ s3[b][k] = s3_start[b][k]
    /\ PassOver =>
          [n \in 1..Len(DeleteCalls) |-> DeleteCalls[n].Key]
              = SelectSeq(ListedKeys, WasExpired)

\* a finished run whose first copy failed and second succeeded, and whose
\* retention pass went on to a delete after a delete that failed
C6_Witness ==
    /\ Done /\ Len(CopyCalls) = 2
    /\ ~CopyCalls[1].ok /\ CopyCalls[2].ok
    /\ Len(DeleteCalls) >= 2
    /\ ~DeleteCalls[1].ok /\ DeleteCalls[2].ok

(***************************************************************************)
(* C7 as claimed: when the listing of the backup bucket fails at any page  *)
(* of a retention pass, the pass has deleted no object.  Stated for the    *)
(* deployments whose backup bucket is not the source bucket.               *)
(***************************************************************************)
C7_FailedListingIsNoOp ==
    (/\ PassOver /\ Failed(BackupLists)
     /\ env.SOURCE_BUCKET = <<"A">> /\ env.BACKUP_BUCKET = <<"B">>) =>
        s3 = s3_cleanup

(***************************************************************************)
(* C7, amended: when the listing of the backup bucket fails at a page of   *)
(* a retention pass, the pass ends there: no listing or delete call        *)
(* follows the failed one, and the objects the pass has deleted are all    *)
(* expired objects under backup/ of the pages returned before the failing  *)
(* one; when the first page fails the pass has deleted nothing.            *)
(***************************************************************************)
C7_FailedListingEndsPass ==
    Failed(BackupLists) =>
        /\ pc \in {"metrics", "done"}
        /\ \A n \in 1..Len(PassCalls) :
              (PassCalls[n].op = "list_objects_v2" /\ ~PassCalls[n].ok) =>
                  n = Len(PassCalls)
        /\ \A k \in Deleted :
              /\ \E n \in 1..Len(ListedKeys) : ListedKeys[n] = k
              /\ HasBackupPrefix(k) /\ WasExpired(k)
        /\ \A k \in DOMAIN After : k \in DOMAIN Before /\ After[k] = Before[k]
        /\ \A b \in Buckets : <<b>> # env.BACKUP_BUCKET => s3[b] = s3_cleanup[b]
        /\ ListedKeys = <<>> => s3 = s3_cleanup

\* the first page was acted on (an expired backup was deleted), the second
\* page failed, and a backup of the later pages is still there
C7_Witness ==
    /\ PassOver /\ Failed(BackupLists)
    /\ Deleted # {}
    /\ \E k \in DOMAIN After : HasBackupPrefix(k) /\ WasExpired(k)

\* the stage of a run a call belongs to: source listing, copies, retention
\* pass, metrics
Phase(c) ==
    CASE c.op = "list_objects_v2" -> IF c.Prefix THEN 3 ELSE 1
      [] c.op = "copy_object" -> 2
      [] c.op = "delete_object" -> 3
      [] c.op = "cleanup_old_backups" -> 3
      [] c.op = "put_metric_data" -> 4

(***************************************************************************)
(* C9: in every run whose source listing succeeds and is non-empty, even   *)
(* when every copy fails, the calls come in this order: all copy attempts, *)
(* then exactly one retention pass (no delete precedes the last copy),     *)
(* then exactly one metrics emission, then the return; the emitted object  *)
(* count and byte count are the objects_backed_up and total_size_bytes of  *)
(* the returned summary, and the success flag is 1.                        *)
(***************************************************************************)
C9_CopiesThenRetentionThenMetrics ==
    /\ \A m, n \in 1..Len(log) : m < n => Phase(log[m]) <= Phase(log[n])
    /\ (Done /\ Listed) =>
        /\ outcome.kind = "return" /\ Response.statusCode = 200
        /\ Len(CopyCalls) = Len(source_objects)
        /\ Len(Passes) = 1
        /\ Passes[1].Bucket = env.BACKUP_BUCKET
        /\ \A n \in 1..Len(PassCalls) : Phase(PassCalls[n]) = 3
        /\ Cardinality({n \in 1..Len(BackupLists) :
                            BackupLists[n].Token = <<>>}) <= 1
        /\ Len(MetricCalls) = 1
        /\ log[Len(log)].op = "put_metric_data"
        /\ LET data == MetricCalls[1].MetricData
           IN  /\ Len(data) = 3
               /\ data[1].MetricName = "BackupObjectsCount"
               /\ data[1].Value = Response.body.objects_backed_up
               /\ data[2].MetricName = "BackupSizeBytes"
               /\ data[2].Value = Response.body.total_size_bytes
               /\ data[3].MetricName = "BackupSuccess"
               /\ data[3].Value = 1
               /\ sink = IF MetricCalls[1].ok THEN <<data>> ELSE <<>>

\* a finished run in which every copy failed, the retention pass deleted
\* something and the metrics were accepted
C9_Witness ==
    /\ Done /\ Len(CopyCalls) = 2 /\ Copied = {}
    /\ \E n \in 1..Len(DeleteCalls) : DeleteCalls[n].ok
    /\ Len(sink) = 1
    /\ sink[1][1].Value = 0

(***************************************************************************)
(* C10 as claimed: for every configuration of SOURCE_BUCKET and            *)
(* BACKUP_BUCKET, a lambda_handler invocation never creates, overwrites    *)
(* or deletes an object of the source bucket.                              *)
(***************************************************************************)
C10_SourceBucketUntouched ==
    env.SOURCE_BUCKET # <<>> =>
        s3[env.SOURCE_BUCKET[1]] = s3_start[env.SOURCE_BUCKET[1]]

\* the object at k of bucket b is not what it was when the run began
Changed(b, k) ==
    \/ (k \in DOMAIN s3[b]) # (k \in DOMAIN s3_start[b])
    \/ k \in DOMAIN s3[b] /\ k \in DOMAIN s3_start[b] /\ s3[b][k] # s3_start[b][k]

(***************************************************************************)
(* C10, amended: when BACKUP_BUCKET is a bucket other than SOURCE_BUCKET,  *)
(* a lambda_handler invocation never creates, overwrites or deletes an     *)
(* object of the source bucket.  In every configuration, every write it    *)
(* makes is to the backup bucket at backup/<timestamp>/<original-key>      *)
(* with the one timestamp captured when the run began, and every delete    *)
(* it makes is of a key of the backup bucket under backup/.                *)
(***************************************************************************)
C10_WritesOnlyUnderBackupPrefix ==
    /\ (env.SOURCE_BUCKET # <<>> /\ env.BACKUP_BUCKET # env.SOURCE_BUCKET) =>
          s3[env.SOURCE_BUCKET[1]] = s3_start[env.SOURCE_BUCKET[1]]
    /\ \A n \in 1..Len(CopyCalls) :
          /\ CopyCalls[n].Bucket = env.BACKUP_BUCKET
          /\ CopyCalls[n].Key =
                BackupKey(FormatTs(StartClock), CopyCalls[n].CopySource.Key)
    /\ \A n \in 1..Len(DeleteCalls) :
          /\ DeleteCalls[n].Bucket = env.BACKUP_BUCKET
          /\ HasBackupPrefix(DeleteCalls[n].Key)
    /\ \A b \in Buckets : \A k \in DOMAIN s3[b] \cup DOMAIN s3_start[b] :
          Changed(b, k) => (<<b>> = env.BACKUP_BUCKET /\ HasBackupPrefix(k))

\* a finished run between two buckets that wrote a backup after the clock
\* moved on and deleted an old one
C10_Witness ==
    /\ Done /\ env.SOURCE_BUCKET = <<"A">> /\ env.BACKUP_BUCKET = <<"B">>
    /\ Len(CopyCalls) = 2 /\ CopyCalls[2].ok
    /\ \E k \in DOMAIN s3["B"] :
          /\ HasBackupPrefix(k)
          /\ s3["B"][k].lm.wall > (StartClock \div TicksPerSec) * TicksPerSec
    /\ \E n \in 1..Len(DeleteCalls) : DeleteCalls[n].ok

(***************************************************************************)
(* C8: restore_from_backup never raises and returns True exactly when      *)
(* both the metadata read and the copy succeed; the only change is then    *)
(* that the object of the source bucket at the original-key of the         *)
(* backup's metadata has the backup's content, whatever was there.  When   *)
(* the metadata read fails or holds no original-key, no copy is            *)
(* attempted, no bucket changes and the result is False.                   *)
(***************************************************************************)
C8_RestoreReportsSuccess ==
    /\ outcome.kind \in {"none", "return"}
    /\ Done =>
        LET bb       == args.backup_bucket
            key      == args.backup_key
            sb       == args.source_bucket
            headOk   == log[1].op = "head_object" /\ log[1].ok
            copyOk   == Len(log) = 2 /\ log[2].op = "copy_object" /\ log[2].ok
            readable == headOk /\ "original-key" \in DOMAIN s3_start[bb][key].meta
        IN  /\ outcome.kind = "return"
            /\ Response \in BOOLEAN
            /\ Response <=> (headOk /\ copyOk)
            /\ ~readable => (Len(log) = 1 /\ ~Response)
            /\ ~Response => s3 = s3_start
            /\ Response =>
                 LET okey == s3_start[bb][key].meta["original-key"]
                 IN  /\ log[2].CopySource = [Bucket |-> bb, Key |-> key]
                     /\ okey \in DOMAIN s3[sb]
                     /\ s3[sb][okey].body = s3_start[bb][key].body
                     /\ \A b \in Buckets :
                        \A k \in DOMAIN s3[b] \cup DOMAIN s3_start[b] :
                           Changed(b, k) => (b = sb /\ k = okey)

\* a restore that returned True and replaced the content of an object the
\* source bucket already held
C8_Witness ==
    /\ Done /\ outcome.kind = "return" /\ Response = TRUE
    /\ \E k \in DOMAIN s3_start[args.source_bucket] :
          /\ k = s3_start[args.backup_bucket][args.backup_key].meta["original-key"]
          /\ s3_start[args.source_bucket][k].body # s3[args.source_bucket][k].body

====
